---------------------------- MODULE Spec2Model ----------------------------
(***************************************************************************)
(* Model of src/Simulation_gravity.py: the Body class (softened pairwise   *)
(* gravity, velocity-Verlet position/velocity updates, bounded trail,      *)
(* trajectory predictor) and the main loop that drives it.                 *)
(*                                                                         *)
(* NUMBERS.  Python floats and the components of pygame's Vector2 are      *)
(* binary floating-point numbers.  TLC has 32-bit integers only, so a      *)
(* number is modelled as a decimal floating-point value [m, e] = m * 10^e  *)
(* with an 8-digit mantissa (m = 0, or 10^7 <= |m| < 10^8).  Every         *)
(* arithmetic operation is applied in the order the Python expression      *)
(* applies it and its exact result is rounded to 8 digits, half to even,   *)
(* as IEEE-754 rounds every operation to 53 bits.  Precision differs from  *)
(* the program's; the sequence of operations and roundings does not.       *)
(***************************************************************************)
EXTENDS Integers, Sequences, FiniteSets, TLC

(***************************************************************************)
(* Evaluation order.  TLC evaluates an operator's argument, and a LET      *)
(* definition, anew at every use.  Let(e, F) is F(e) with e evaluated      *)
(* once, before F is applied (the way every Python expression is           *)
(* evaluated); the operators below use it for every value they read more   *)
(* than once.  It changes no value, only the work TLC does.                *)
(***************************************************************************)
Let(e, F(_)) == CHOOSE r \in { F(x) : x \in {e} } : TRUE

(***************************************************************************)
(* Decimal floating point, 8 significant digits, round-half-even.          *)
(***************************************************************************)
P10(n) == <<1, 10, 100, 1000, 10000, 100000, 1000000, 10000000,
            100000000, 1000000000>>[n + 1]

Abs(x) == IF x < 0 THEN -x ELSE x

Sgn(x) == IF x < 0 THEN -1 ELSE IF x > 0 THEN 1 ELSE 0

\* number of decimal digits of a natural number n, 0 < n < 2^31
NumDigits(n) ==
    IF n < 10 THEN 1 ELSE IF n < 100 THEN 2 ELSE IF n < 1000 THEN 3
    ELSE IF n < 10000 THEN 4 ELSE IF n < 100000 THEN 5 ELSE IF n < 1000000 THEN 6
    ELSE IF n < 10000000 THEN 7 ELSE IF n < 100000000 THEN 8
    ELSE IF n < 1000000000 THEN 9 ELSE 10

Zero == [m |-> 0, e |-> 0]

\* q, rounded up by one when the discarded part rem (of a unit 2 * half) asks for it
RoundHalfEven(q, rem, half) ==
    IF rem > half \/ (rem = half /\ q % 2 = 1) THEN q + 1 ELSE q

\* the float of sign s and magnitude q * 10^e, where q <= 10^8 is already rounded
Pack(s, q, e) ==
    IF q = 0 THEN Zero
    ELSE IF q = 100000000 THEN [m |-> s * 10000000, e |-> e + 1]
    ELSE [m |-> s * q, e |-> e]

\* the float nearest to n * 10^e, for an integer |n| < 2^31
Dec(n, e) ==
    IF n = 0 THEN Zero
    ELSE LET k == NumDigits(Abs(n))
         IN  IF k <= 8
             THEN [m |-> n * P10(8 - k), e |-> e - (8 - k)]
             ELSE Pack(Sgn(n),
                       RoundHalfEven(Abs(n) \div P10(k - 8), Abs(n) % P10(k - 8),
                                     5 * P10(k - 9)),
                       e + (k - 8))

IsZero(a) == a.m = 0

Neg(a) == Let(a, LAMBDA v : [m |-> -v.m, e |-> v.e])

\* the float nearest to hi * 10^9 + lo at exponent e (0 < hi <= 10^8, 0 <= lo < 10^9)
RoundLimbs(s, hi, lo, e) ==
    LET k == NumDigits(hi)
    IN  IF k = 9 THEN Pack(s, 10000000, e + 10)
        ELSE Pack(s, RoundHalfEven(hi * P10(8 - k) + lo \div P10(k + 1),
                                   lo % P10(k + 1), 5 * P10(k)),
                  e + k + 1)

\* a + b for a's exponent >= b's, both nonzero
AddOrdered(a, b) ==
    LET d  == a.e - b.e
        s  == Sgn(a.m)
        ma == Abs(a.m)
        mb == Sgn(a.m) * b.m          \* b's mantissa, signed relative to a
    IN  IF d = 0 THEN Dec(a.m + b.m, a.e)
        ELSE IF d >= 10 THEN a
        ELSE \* ma * 10^d + mb exactly, as hi * 10^9 + lo
             LET lo0 == (ma % P10(9 - d)) * P10(d) + mb
                 hi  == (ma \div P10(9 - d)) + (lo0 \div 1000000000)
                 lo  == lo0 % 1000000000
             IN  IF hi = 0 THEN Dec(s * lo, b.e)
                 ELSE RoundLimbs(s, hi, lo, b.e)

Add(a0, b0) ==
    Let(<<a0, b0>>, LAMBDA t :
        LET a == t[1]
            b == t[2]
        IN  IF IsZero(a) THEN b
            ELSE IF IsZero(b) THEN a
            ELSE IF a.e >= b.e THEN AddOrdered(a, b) ELSE AddOrdered(b, a))

Sub(a, b) == Add(a, Neg(b))

\* the exact product of two mantissas x, y < 10^8, as <<hi, lo>> = hi * 10^8 + lo
MulLimbs(x, y) ==
    LET xh  == x \div 10000
        xl  == x % 10000
        yh  == y \div 10000
        yl  == y % 10000
        mid == xh * yl + xl * yh
        low == xl * yl
        c   == (mid % 10000) + (low \div 10000)
    IN  << xh * yh + (mid \div 10000) + (c \div 10000),
           (c % 10000) * 10000 + (low % 10000) >>

\* the float of sign s nearest to (p[1] * 10^8 + p[2]) * 10^e, a 15- or 16-digit integer
RoundProduct(s, p, e) ==
    IF p[1] >= 10000000
    THEN Pack(s, RoundHalfEven(p[1], p[2], 50000000), e + 8)
    ELSE Pack(s, RoundHalfEven(p[1] * 10 + p[2] \div 10000000,
                               p[2] % 10000000, 5000000),
              e + 7)

Mul(a0, b0) ==
    Let(<<a0, b0>>, LAMBDA t :
        LET a == t[1]
            b == t[2]
        IN  IF IsZero(a) \/ IsZero(b) THEN Zero
            ELSE Let(MulLimbs(Abs(a.m), Abs(b.m)), LAMBDA p :
                     RoundProduct(Sgn(a.m) * Sgn(b.m), p, a.e + b.e)))

\* n more quotient digits of r / d by long division: <<quotient, remainder>>
RECURSIVE LongDiv(_, _, _, _)
LongDiv(q, r, d, n) ==
    IF n = 0 THEN <<q, r>>
    ELSE LongDiv(q * 10 + (r * 10) \div d, (r * 10) % d, d, n - 1)

\* a / b for b # 0
Div(a0, b0) ==
    Let(<<a0, b0>>, LAMBDA t :
        LET a == t[1]
            b == t[2]
            x == Abs(a.m)
            y == Abs(b.m)
            n == IF x >= y THEN 7 ELSE 8
        IN  IF IsZero(a) THEN Zero
            ELSE Let(LongDiv(x \div y, x % y, y, n), LAMBDA qr :
                     Pack(Sgn(a.m) * Sgn(b.m),
                          IF 2 * qr[2] > y \/ (2 * qr[2] = y /\ qr[1] % 2 = 1)
                          THEN qr[1] + 1 ELSE qr[1],
                          a.e - b.e - n)))

\* TRUE iff x * x <= hi * 10^8 + lo
SqLeq(x, hi, lo) ==
    Let(MulLimbs(x, x), LAMBDA p : p[1] < hi \/ (p[1] = hi /\ p[2] <= lo))

\* the largest x in l..h with x * x <= nh * 10^8 + nl, by bisection
RECURSIVE ISqrt(_, _, _, _)
ISqrt(l, h, nh, nl) ==
    IF l = h THEN l
    ELSE Let((l + h + 1) \div 2, LAMBDA mid :
             IF SqLeq(mid, nh, nl) THEN ISqrt(mid, h, nh, nl)
             ELSE ISqrt(l, mid - 1, nh, nl))

\* sqrt(a) for a >= 0
Sqrt(a0) ==
    Let(a0, LAMBDA a :
        IF IsZero(a) THEN Zero
        ELSE LET odd == (a.e % 2 = 1)
                 \* a = (nh * 10^8 + nl) * 10^(2 * h), an integer of 15 or 16 digits
                 nh  == IF odd THEN a.m \div 10 ELSE a.m
                 nl  == IF odd THEN (a.m % 10) * 10000000 ELSE 0
                 h   == IF odd THEN (a.e - 7) \div 2 ELSE (a.e - 8) \div 2
             IN  \* the root's leading four digits s, then all eight x
                 Let(ISqrt(1000, 9999, 0, nh), LAMBDA s :
                 Let(ISqrt(s * 10000, s * 10000 + 9999, nh, nl), LAMBDA x :
                 Let(MulLimbs(x, x), LAMBDA p :
                     Pack(1, IF (nh - p[1]) * 100000000 + (nl - p[2]) > x
                             THEN x + 1 ELSE x,
                          h)))))

Less(a, b) == Sub(a, b).m < 0

(***************************************************************************)
(* pygame.math.Vector2: a pair of floats with componentwise arithmetic.    *)
(***************************************************************************)
Vector2(x, y) == [x |-> x, y |-> y]

VAdd(u0, v0) ==
    Let(<<u0, v0>>, LAMBDA t : Vector2(Add(t[1].x, t[2].x), Add(t[1].y, t[2].y)))

VSub(u0, v0) ==
    Let(<<u0, v0>>, LAMBDA t : Vector2(Sub(t[1].x, t[2].x), Sub(t[1].y, t[2].y)))

\* vector * scalar and scalar * vector
VScale(v0, k0) ==
    Let(<<v0, k0>>, LAMBDA t : Vector2(Mul(t[1].x, t[2]), Mul(t[1].y, t[2])))

\* vector / scalar, for a scalar # 0 (pygame raises ZeroDivisionError for 0)
VDiv(v0, k0) ==
    Let(<<v0, k0>>, LAMBDA t : Vector2(Div(t[1].x, t[2]), Div(t[1].y, t[2])))

length_squared(v0) == Let(v0, LAMBDA v : Add(Mul(v.x, v.x), Mul(v.y, v.y)))

length(v) == Sqrt(length_squared(v))

\* Vector2.normalize(): pygame raises ValueError ("Can't normalize Vector of
\* length Zero") when length(v) = 0
normalize(v0) ==
    Let(<<v0, length(v0)>>, LAMBDA t :
        IF IsZero(t[2]) THEN [fault |-> "ValueError", v |-> t[1]]
        ELSE [fault |-> "none", v |-> VDiv(t[1], t[2])])

(***************************************************************************)
(* Simulation parameters.                                                  *)
(***************************************************************************)
G == Dec(6674, -5)

BASE_MASS == Dec(1, 6)

DT == Dec(5, -3)

TRAIL_LENGTH == 100

SOFTENING == Dec(50, 0)

PREDICTION_STEPS == 50

Half == Dec(5, -1)

\* DT**2
DTSquared == Mul(DT, DT)

(***************************************************************************)
(* class Body.  Colour, radius and id only serve the display and are left  *)
(* out.                                                                    *)
(***************************************************************************)
\* Body(mass, pos_x, pos_y, vel_x, vel_y, color, name): the outcome of the
\* constructor call, [fault |-> "none", self |-> the object] or the exception
\* raised.  With an empty name (the default) line 120 evaluates
\* id(self)[-4:], which raises TypeError; with a negative mass
\* (mass / BASE_MASS)**MASS_SCALING_POWER is complex and int() of it raises
\* TypeError at line 125.
Body(mass, pos_x, pos_y, vel_x, vel_y, name) ==
    IF name = "" THEN [ fault |-> "TypeError" ]
    ELSE IF Less(mass, Zero) THEN [ fault |-> "TypeError" ]
    ELSE [ fault |-> "none",
           self  |-> [ mass                 |-> mass,
                       position             |-> Vector2(pos_x, pos_y),
                       velocity             |-> Vector2(vel_x, vel_y),
                       force                |-> Vector2(Zero, Zero),
                       force_prev           |-> Vector2(Zero, Zero),
                       name                 |-> name,
                       trail                |-> << >>,
                       predicted_trajectory |-> << >> ] ]

\* The loop "for other in ...:" of calculate_force and of predict_trajectory,
\* from position k of the list `others` (indices into bs) on: the force on
\* body i, taken to be at `pos`, accumulated onto acc.  normalize() raises
\* ValueError on a zero-length r_vec and leaves the sum as accumulated so far.
RECURSIVE ForceLoop(_, _, _, _, _, _)
ForceLoop(bs, i, pos, others, k, acc) ==
    IF k > Len(others) THEN [force |-> acc, fault |-> "none"]
    ELSE IF others[k] = i THEN ForceLoop(bs, i, pos, others, k + 1, acc)
    ELSE Let(VSub(bs[others[k]].position, pos), LAMBDA r_vec :
         Let(Add(length_squared(r_vec), SOFTENING), LAMBDA dist_sq :
             IF IsZero(dist_sq) THEN ForceLoop(bs, i, pos, others, k + 1, acc)
             ELSE LET force_mag == Div(Mul(Mul(G, bs[i].mass), bs[others[k]].mass),
                                       dist_sq)
                  IN  Let(normalize(r_vec), LAMBDA unit :
                          IF unit.fault # "none"
                          THEN [force |-> acc, fault |-> unit.fault]
                          ELSE Let(VAdd(acc, VScale(unit.v, force_mag)), LAMBDA sum :
                                   ForceLoop(bs, i, pos, others, k + 1, sum)))))

\* Variant: the save of the force into force_prev placed after the loop, so
\* that force_prev receives the force just computed.
calculate_force_saving_new_force(bs, i, other_bodies) ==
    Let(ForceLoop(bs, i, bs[i].position, other_bodies, 1, Vector2(Zero, Zero)),
        LAMBDA r : [ body  |-> [bs[i] EXCEPT !.force_prev = r.force,
                                             !.force = r.force],
                     fault |-> r.fault ])

\* bs[i].calculate_force(other_bodies): the body afterwards, and the exception
\* raised ("none" when it returns)
calculate_force(bs, i, other_bodies) ==
    Let(ForceLoop(bs, i, bs[i].position, other_bodies, 1, Vector2(Zero, Zero)),
        LAMBDA r : [ body  |-> [bs[i] EXCEPT !.force_prev = bs[i].force,
                                             !.force = r.force],
                     fault |-> r.fault ])

\* Variant: a zero mass only drops the acceleration term; the velocity term
\* still moves the body.
update_position_verlet_zero_mass_drifts(b) ==
    LET accel_prev == IF IsZero(b.mass) THEN Vector2(Zero, Zero)
                      ELSE VDiv(b.force_prev, b.mass)
    IN  [b EXCEPT !.position =
            VAdd(b.position,
                 VAdd(VScale(b.velocity, DT),
                      VScale(VScale(accel_prev, Half), DTSquared)))]

\* lines 140-143
update_position_verlet(b) ==
    IF IsZero(b.mass) THEN b
    ELSE LET accel_prev == VDiv(b.force_prev, b.mass)
         IN  [b EXCEPT !.position =
                 VAdd(b.position,
                      VAdd(VScale(b.velocity, DT),
                           VScale(VScale(accel_prev, Half), DTSquared)))]

\* Variant: the trail is appended to and never evicted from.
update_velocity_verlet_without_pop(b) ==
    IF IsZero(b.mass) THEN b
    ELSE LET accel_prev == VDiv(b.force_prev, b.mass)
             accel_now  == VDiv(b.force, b.mass)
         IN  [b EXCEPT !.velocity =
                          VAdd(b.velocity,
                               VScale(VScale(VAdd(accel_prev, accel_now), Half), DT)),
                       !.trail = Append(b.trail, b.position)]

\* Variant: trail.pop() in place of trail.pop(0): the newest entry is evicted.
update_velocity_verlet_pop_newest(b) ==
    IF IsZero(b.mass) THEN b
    ELSE LET accel_prev == VDiv(b.force_prev, b.mass)
             accel_now  == VDiv(b.force, b.mass)
         IN  [b EXCEPT !.velocity =
                          VAdd(b.velocity,
                               VScale(VScale(VAdd(accel_prev, accel_now), Half), DT)),
                       !.trail = IF Len(b.trail) + 1 > TRAIL_LENGTH
                                 THEN b.trail
                                 ELSE Append(b.trail, b.position)]

\* lines 145-152
update_velocity_verlet(b) ==
    IF IsZero(b.mass) THEN b
    ELSE LET accel_prev == VDiv(b.force_prev, b.mass)
             accel_now  == VDiv(b.force, b.mass)
         IN  [b EXCEPT !.velocity =
                          VAdd(b.velocity,
                               VScale(VScale(VAdd(accel_prev, accel_now), Half), DT)),
                       !.trail = IF Len(b.trail) + 1 > TRAIL_LENGTH
                                 THEN Tail(Append(b.trail, b.position))
                                 ELSE Append(b.trail, b.position)]

(***************************************************************************)
(* predict_trajectory works on Vector2 objects, some of them shared: a     *)
(* Vector2 is mutable, "+=" and update() change the object in place, and   *)
(* only Vector2(v) makes a new one.  Here the objects live in a heap, a    *)
(* sequence of vector values indexed by address; position, velocity, force *)
(* and force_prev of body j are the objects at Addr(j, field), and every   *)
(* Vector2(...) of the method appends a new object to the heap.            *)
(***************************************************************************)
Addr(j, field) ==
    4 * (j - 1) + CASE field = "position"   -> 1
                    [] field = "velocity"   -> 2
                    [] field = "force"      -> 3
                    [] field = "force_prev" -> 4

\* the heap holding the vectors of the bodies bs
Heap(bs) ==
    [ a \in 1..(4 * Len(bs)) |->
        LET b == bs[(a - 1) \div 4 + 1]
        IN  CASE (a - 1) % 4 = 0 -> b.position
              [] (a - 1) % 4 = 1 -> b.velocity
              [] (a - 1) % 4 = 2 -> b.force
              [] (a - 1) % 4 = 3 -> b.force_prev ]

\* the bodies bs with their vectors as the heap holds them
View(bs, heap) ==
    [ j \in 1..Len(bs) |->
        [bs[j] EXCEPT !.position   = heap[Addr(j, "position")],
                      !.velocity   = heap[Addr(j, "velocity")],
                      !.force      = heap[Addr(j, "force")],
                      !.force_prev = heap[Addr(j, "force_prev")]] ]

\* lines 167-173, "for other in bodies:" from position k of the list on: each
\* pair's force is added in place to the object temp_force; other.position and
\* temp_pos are read from the heap.  normalize() raises ValueError on a
\* zero-length r_vec.
RECURSIVE PredictForceLoop(_, _, _, _, _, _)
PredictForceLoop(bs, i, heap, temp_pos, temp_force, k) ==
    IF k > Len(bs) THEN [ heap |-> heap, fault |-> "none" ]
    ELSE IF k = i THEN PredictForceLoop(bs, i, heap, temp_pos, temp_force, k + 1)
    ELSE Let(VSub(heap[Addr(k, "position")], heap[temp_pos]), LAMBDA r_vec :
         Let(Add(length_squared(r_vec), SOFTENING), LAMBDA dist_sq :
             IF IsZero(dist_sq)
             THEN PredictForceLoop(bs, i, heap, temp_pos, temp_force, k + 1)
             ELSE Let(Div(Mul(Mul(G, bs[i].mass), bs[k].mass), dist_sq),
                      LAMBDA force_mag :
                  Let(normalize(r_vec), LAMBDA unit :
                      IF unit.fault # "none"
                      THEN [ heap |-> heap, fault |-> unit.fault ]
                      ELSE Let([heap EXCEPT ![temp_force] =
                                    VAdd(heap[temp_force], VScale(unit.v, force_mag))],
                               LAMBDA h :
                               PredictForceLoop(bs, i, h, temp_pos, temp_force,
                                                k + 1))))))

\* One iteration of the loop "for _ in range(steps):" (lines 162-179) on
\* st = [heap, temp_pos, temp_vel, temp_force, temp_force_prev, predicted,
\* fault]; the temp_ fields and the entries of predicted are addresses.
\* Dividing by self.mass = 0 raises ZeroDivisionError at the first statement;
\* an exception ends the loop (st.fault).
PredictStep(bs, i, st) ==
    IF st.fault # "none" THEN st
    ELSE IF IsZero(bs[i].mass) THEN [st EXCEPT !.fault = "ZeroDivisionError"]
    ELSE \* 162-163: temp_pos += temp_vel * DT + 0.5 * accel_prev * DT**2
         Let(VDiv(st.heap[st.temp_force_prev], bs[i].mass), LAMBDA accel_prev0 :
         Let([st.heap EXCEPT ![st.temp_pos] =
                  VAdd(st.heap[st.temp_pos],
                       VAdd(VScale(st.heap[st.temp_vel], DT),
                            VScale(VScale(accel_prev0, Half), DTSquared)))],
             LAMBDA h1 :
         \* 165: temp_force_prev = Vector2(temp_force), a new object
         Let(Append(h1, h1[st.temp_force]), LAMBDA h2 :
         Let(Len(h2), LAMBDA new_force_prev :
         \* 166: temp_force.update(0, 0)
         Let([h2 EXCEPT ![st.temp_force] = Vector2(Zero, Zero)], LAMBDA h3 :
         Let(PredictForceLoop(bs, i, h3, st.temp_pos, st.temp_force, 1), LAMBDA r :
             IF r.fault # "none"
             THEN [st EXCEPT !.heap = r.heap, !.temp_force_prev = new_force_prev,
                             !.fault = r.fault]
             ELSE \* 175-177: temp_vel += 0.5 * (accel_prev + accel_now) * DT
                  Let(VDiv(r.heap[new_force_prev], bs[i].mass), LAMBDA accel_prev :
                  Let(VDiv(r.heap[st.temp_force], bs[i].mass), LAMBDA accel_now :
                  Let([r.heap EXCEPT ![st.temp_vel] =
                           VAdd(r.heap[st.temp_vel],
                                VScale(VScale(VAdd(accel_prev, accel_now), Half),
                                       DT))],
                      LAMBDA h4 :
                  \* 179: predicted.append(Vector2(temp_pos)), a new object
                  Let(Append(h4, h4[st.temp_pos]), LAMBDA h5 :
                      [st EXCEPT !.heap = h5,
                                 !.temp_force_prev = new_force_prev,
                                 !.predicted = Append(st.predicted, Len(h5))]))))))))))

\* n iterations of the loop, one after the other (in two halves, which keeps
\* TLC's evaluation shallow)
RECURSIVE PredictLoop(_, _, _, _)
PredictLoop(bs, i, st, n) ==
    IF n = 0 THEN st
    ELSE IF n = 1 THEN PredictStep(bs, i, st)
    ELSE Let(PredictLoop(bs, i, st, n \div 2), LAMBDA half :
             PredictLoop(bs, i, half, n - n \div 2))

\* line 181 and the state the call leaves: the list predicted with its
\* objects read from the heap, the exception raised, and the bodies with
\* their vectors as the heap holds them after the call
PredictResult(bs, st) ==
    [ predicted |-> [n \in 1..Len(st.predicted) |-> st.heap[st.predicted[n]]],
      fault     |-> st.fault,
      bodies    |-> View(bs, st.heap) ]

\* Variant: "temp_pos = self.position" and "temp_vel = self.velocity", the
\* names bound to the objects of self instead of to copies of them.
predict_trajectory_on_live_vectors(bs, i, steps) ==
    Let(Heap(bs) \o << bs[i].force, bs[i].force_prev >>, LAMBDA heap :
    Let(PredictLoop(bs, i,
                    [ heap            |-> heap,
                      temp_pos        |-> Addr(i, "position"),
                      temp_vel        |-> Addr(i, "velocity"),
                      temp_force      |-> Len(heap) - 1,
                      temp_force_prev |-> Len(heap),
                      predicted       |-> << >>,
                      fault           |-> "none" ],
                    steps),
        LAMBDA st : PredictResult(bs, st)))

\* bs[i].predict_trajectory(bs, steps), lines 154-181.  Lines 155-158 bind
\* temp_pos, temp_vel, temp_force and temp_force_prev to four new objects,
\* copies of the vectors of self.
predict_trajectory(bs, i, steps) ==
    Let(Heap(bs) \o << Heap(bs)[Addr(i, "position")], Heap(bs)[Addr(i, "velocity")],
                       Heap(bs)[Addr(i, "force")], Heap(bs)[Addr(i, "force_prev")] >>,
        LAMBDA heap :
    Let(PredictLoop(bs, i,
                    [ heap            |-> heap,
                      temp_pos        |-> Len(heap) - 3,
                      temp_vel        |-> Len(heap) - 2,
                      temp_force      |-> Len(heap) - 1,
                      temp_force_prev |-> Len(heap),
                      predicted       |-> << >>,
                      fault           |-> "none" ],
                    steps),
        LAMBDA st : PredictResult(bs, st)))

(***************************************************************************)
(* Bounds of the exploration.                                              *)
(***************************************************************************)
\* frames explored with prediction switched off
MaxFrames == 102

\* frames explored with prediction switched on (each costs
\* PREDICTION_STEPS integration steps per body)
MaxPredFrames == 2

\* frames in which the P key is explored
MaxKeyFrames == 2

\* frames explored when the bodies of a pass are visited in any order
MaxFramesAnyOrder == 3

\* events explored in the list pygame.event.get() returns in one frame
MaxEventsPerFrame == 2

(***************************************************************************)
(* The body collections the simulation is started from.  Each is a list of *)
(* Body(...) constructor calls, as in "Create Bodies".                     *)
(***************************************************************************)
\* line 23
info_height == 150

\* the displays pygame.display.Info() is taken to report: << current_w, current_h >>
Displays == << << 1920, 1080 >>, << 1366, 768 >>, << 2560, 1440 >> >>

\* lines 279-281 (Python ints)
SCREEN_WIDTH(screen_info) == screen_info[1]

SCREEN_HEIGHT(screen_info) ==
    IF screen_info[2] > 768 THEN screen_info[2] - info_height ELSE screen_info[2]

\* lines 289-306
ProgramBodies(screen_info) ==
    LET initial_offset_x == Dec(SCREEN_WIDTH(screen_info) \div 2, 0)
        initial_offset_y == Dec(SCREEN_HEIGHT(screen_info) \div 2, 0)
        star_mass        == Mul(Dec(500, 0), BASE_MASS)
        dist1            == Dec(150, 0)
        v1               == Sqrt(Div(Mul(G, star_mass), dist1))
        dist2            == Dec(250, 0)
        v2               == Sqrt(Div(Mul(G, star_mass), dist2))
    IN  << Body(star_mass, initial_offset_x, initial_offset_y, Zero, Zero, "Star"),
           Body(Mul(Dec(10, 0), BASE_MASS), Add(initial_offset_x, dist1),
                initial_offset_y, Zero, Mul(v1, Dec(11, -1)), "Planet A"),
           Body(Mul(Dec(25, 0), BASE_MASS), initial_offset_x,
                Sub(initial_offset_y, dist2), Mul(Neg(v2), Dec(9, -1)), Zero,
                "Planet B") >>

\* a static body of mass 1e6 at (0,0) and a body of mass 1 at (100,0), at rest
HeavyAndLight ==
    << Body(Dec(1, 6), Zero, Zero, Zero, Zero, "Heavy"),
       Body(Dec(1, 0), Dec(100, 0), Zero, Zero, Zero, "Light") >>

\* a body of mass 0 with a velocity of its own, between two massive bodies
WithZeroMass ==
    << Body(Dec(1, 6), Zero, Zero, Zero, Zero, "Heavy"),
       Body(Zero, Dec(3, 0), Dec(4, 0), Dec(2, 0), Dec(-1, 0), "Massless"),
       Body(Dec(5, 0), Dec(-6, 0), Dec(8, 0), Dec(30, 0), Zero, "Light") >>

\* two bodies constructed at the same position, and a third elsewhere
Coincident ==
    << Body(Dec(1, 6), Dec(5, 0), Dec(5, 0), Zero, Zero, "Heavy"),
       Body(Dec(2, 0), Dec(5, 0), Dec(5, 0), Dec(1, 0), Zero, "Twin"),
       Body(Dec(3, 0), Zero, Dec(9, 0), Zero, Zero, "Far") >>

\* a light body passing close to a heavy one
CloseFlyBy ==
    << Body(Dec(1, 6), Zero, Zero, Zero, Zero, "Heavy"),
       Body(Dec(1, 0), Dec(3, 0), Zero, Zero, Dec(100, 0), "Light") >>

\* a list whose second constructor call leaves the name out
Unnamed ==
    << Body(Dec(1, 6), Zero, Zero, Zero, Zero, "Heavy"),
       Body(Dec(1, 0), Dec(100, 0), Zero, Zero, Zero, ""),
       Body(Dec(1, 0), Dec(200, 0), Zero, Zero, Zero, "Light") >>

\* a list whose first constructor call passes a negative mass
NegativeMass ==
    << Body(Dec(-5, 0), Dec(3, 0), Dec(4, 0), Dec(2, 0), Dec(-1, 0), "N"),
       Body(Dec(1, 0), Dec(100, 0), Zero, Zero, Zero, "Light") >>

Scenarios ==
    << ProgramBodies(Displays[1]), ProgramBodies(Displays[2]),
       ProgramBodies(Displays[3]), HeavyAndLight, WithZeroMass, Coincident,
       CloseFlyBy, Unnamed, NegativeMass >>

\* "bodies.append(Body(...))" for each call of the list in turn: the list built
\* when the first exception is raised or the calls are done, and that exception
RECURSIVE Created(_, _, _)
Created(calls, k, built) ==
    IF k > Len(calls) THEN [ bodies |-> built, fault |-> "none" ]
    ELSE IF calls[k].fault # "none" THEN [ bodies |-> built, fault |-> calls[k].fault ]
    ELSE Created(calls, k + 1, Append(built, calls[k].self))

\* the list `bodies` a run starts from
InitialBodies(s) == Created(Scenarios[s], 1, << >>).bodies

(***************************************************************************)
(* State.                                                                  *)
(***************************************************************************)
VARIABLES
    bodies,            \* the list `bodies` of Body objects
    draw_predictions,  \* toggled by the P key
    running,           \* cleared by QUIT / ESCAPE
    frame_count,       \* completed iterations of the main loop
    sim_time,
    pc,                \* position in the body of the main loop
    visited,           \* indices of the bodies the current "for body in bodies" has visited
    fault,             \* the exception that ended the program, "none" while it runs
    scenario,          \* history: which collection the run was constructed from
    tick_start,        \* history: `bodies` as the current frame began
    pos_hist,          \* history: pos_hist[k][i] = position of body i at the end of the k-th tick
    force_end,         \* history: force_end[i] = force of body i at the end of the last tick
    out_of_order       \* history: a pass of the current frame left the order of the list

vars == << bodies, draw_predictions, running, frame_count, sim_time, pc, visited,
           fault, scenario, tick_start, pos_hist, force_end, out_of_order >>

Idx == 1..Len(bodies)

\* the list `bodies` as the argument other_bodies / bodies of a method of bs
AllOf(bs) == [j \in 1..Len(bs) |-> j]

\* lines 289-316: the state as the main loop is entered, or as an exception
\* of a constructor call ends the program
Init ==
    /\ scenario \in 1..Len(Scenarios)
    /\ bodies = InitialBodies(scenario)
    /\ draw_predictions = TRUE
    /\ running = TRUE
    /\ frame_count = 0
    /\ sim_time = Zero
    /\ fault = Created(Scenarios[scenario], 1, << >>).fault
    /\ pc = IF fault = "none" THEN "events" ELSE "crashed"
    /\ visited = {}
    /\ tick_start = bodies
    /\ pos_hist = << >>
    /\ force_end = [i \in 1..Len(bodies) |-> bodies[i].force]
    /\ out_of_order = FALSE

\* "for body in bodies" visits the list in order
InOrder(i) == i = Cardinality(visited) + 1

\* the pass that follows once body i has been visited, or the same pass
AfterVisit(i, here, next) ==
    /\ IF visited \cup {i} = Idx
       THEN pc' = next /\ visited' = {}
       ELSE pc' = here /\ visited' = visited \cup {i}
    /\ out_of_order' = (out_of_order \/ ~InOrder(i))

\* an exception propagates out of the main loop: the program ends
Raise(exception) ==
    /\ fault' = exception
    /\ pc' = "crashed"
    /\ visited' = visited
    /\ out_of_order' = out_of_order

\* the events told apart: QUIT, and KEYDOWN with key ESCAPE, p or 1 (keys 2 and
\* 3 act as key 1 does: they select a row of the table, which only the display
\* reads)
EventKinds == { "QUIT", "K_ESCAPE", "K_p", "K_1" }

\* the lists pygame.event.get() is taken to return
EventLists == UNION { [1..n -> EventKinds] : n \in 0..MaxEventsPerFrame }

\* lines 319-332: "for event in pygame.event.get()" from position k of the list
\* on, st = [running, draw_predictions]
RECURSIVE ApplyEvents(_, _, _)
ApplyEvents(events, k, st) ==
    IF k > Len(events) THEN st
    ELSE ApplyEvents(events, k + 1,
             IF events[k] \in { "QUIT", "K_ESCAPE" } THEN [st EXCEPT !.running = FALSE]
             ELSE IF events[k] = "K_p"
             THEN [st EXCEPT !.draw_predictions = ~st.draw_predictions]
             ELSE st)

\* lines 318-332: while running: for event in pygame.event.get().  The P key
\* is explored in the first MaxKeyFrames frames, and frames with prediction
\* switched on in the first MaxPredFrames frames; QUIT and ESCAPE in every
\* frame.
HandleEvents(maxFrames) ==
    /\ pc = "events"
    /\ frame_count < maxFrames
    /\ \E events \in EventLists :
           /\ (\E k \in 1..Len(events) : events[k] = "K_p") => frame_count < MaxKeyFrames
           /\ \E st \in { ApplyEvents(events, 1,
                              [ running |-> running,
                                draw_predictions |-> draw_predictions ]) } :
                  /\ running' = st.running
                  /\ draw_predictions' = st.draw_predictions
    /\ draw_predictions' => frame_count < MaxPredFrames
    /\ pc' = "force1"
    /\ visited' = {}
    /\ tick_start' = bodies
    /\ out_of_order' = FALSE
    /\ UNCHANGED << bodies, frame_count, sim_time, fault, scenario, pos_hist, force_end >>

\* one iteration of "for body in bodies: body.calculate_force(bodies)"
ForceStep(i, here, next) ==
    /\ pc = here
    /\ i \in Idx \ visited
    /\ \E r \in { calculate_force(bodies, i, AllOf(bodies)) } :
           /\ bodies' = [bodies EXCEPT ![i] = r.body]
           /\ IF r.fault = "none"
              THEN AfterVisit(i, here, next) /\ UNCHANGED fault
              ELSE Raise(r.fault)
    /\ UNCHANGED << draw_predictions, running, frame_count, sim_time, scenario,
                    tick_start, pos_hist, force_end >>

\* Variant: the first two loops fused into one,
\* "for body in bodies: body.calculate_force(bodies); body.update_position_verlet()"
CalculateForceAndMove(i) ==
    /\ pc = "force1"
    /\ i \in Idx \ visited
    /\ \E r \in { calculate_force(bodies, i, AllOf(bodies)) } :
           /\ bodies' = [bodies EXCEPT ![i] = update_position_verlet(r.body)]
           /\ IF r.fault = "none"
              THEN AfterVisit(i, "force1", "position") /\ UNCHANGED fault
              ELSE Raise(r.fault)
    /\ UNCHANGED << draw_predictions, running, frame_count, sim_time, scenario,
                    tick_start, pos_hist, force_end >>

\* lines 334-335
CalculateForceFirst(i) == ForceStep(i, "force1", "position")

\* lines 336-337
UpdatePosition(i) ==
    /\ pc = "position"
    /\ i \in Idx \ visited
    /\ bodies' = [bodies EXCEPT ![i] = update_position_verlet(bodies[i])]
    /\ AfterVisit(i, "position", "force2")
    /\ UNCHANGED << draw_predictions, running, frame_count, sim_time, fault, scenario,
                    tick_start, pos_hist, force_end >>

\* lines 338-339
CalculateForceSecond(i) == ForceStep(i, "force2", "velocity")

\* lines 340-343
UpdateVelocity(i) ==
    /\ pc = "velocity"
    /\ i \in Idx \ visited
    /\ bodies' = [bodies EXCEPT ![i] = update_velocity_verlet(bodies[i])]
    /\ AfterVisit(i, "velocity", IF draw_predictions THEN "predict" ELSE "frame_end")
    /\ UNCHANGED << draw_predictions, running, frame_count, sim_time, fault, scenario,
                    tick_start, pos_hist, force_end >>

\* lines 344-345
Predict(i) ==
    /\ pc = "predict"
    /\ i \in Idx \ visited
    /\ \E r \in { predict_trajectory(bodies, i, PREDICTION_STEPS) } :
           IF r.fault = "none"
           THEN /\ bodies' = [r.bodies EXCEPT ![i].predicted_trajectory = r.predicted]
                /\ AfterVisit(i, "predict", "frame_end")
                /\ UNCHANGED fault
           ELSE /\ bodies' = r.bodies
                /\ Raise(r.fault)
    /\ UNCHANGED << draw_predictions, running, frame_count, sim_time, scenario,
                    tick_start, pos_hist, force_end >>

\* lines 347-359 (drawing reads the bodies only) and the test of `while running`
EndFrame ==
    /\ pc = "frame_end"
    /\ sim_time' = Add(sim_time, DT)
    /\ frame_count' = frame_count + 1
    /\ pc' = IF running THEN "events" ELSE "exited"
    /\ pos_hist' = Append(pos_hist, [i \in Idx |-> bodies[i].position])
    /\ force_end' = [i \in Idx |-> bodies[i].force]
    /\ UNCHANGED << bodies, draw_predictions, running, visited, fault, scenario,
                    tick_start, out_of_order >>

(***************************************************************************)
(* One whole tick (lines 334-341) as a function of the list of bodies, the *)
(* bodies of every pass visited in list order; for lists on which no call  *)
(* raises.                                                                 *)
(***************************************************************************)
RECURSIVE ForcePassFrom(_, _)
ForcePassFrom(bs, i) ==
    IF i > Len(bs) THEN bs
    ELSE Let([bs EXCEPT ![i] = calculate_force(bs, i, AllOf(bs)).body], LAMBDA nbs :
             ForcePassFrom(nbs, i + 1))

Tick(bs0) ==
    Let(bs0, LAMBDA bs :
    Let(ForcePassFrom(bs, 1), LAMBDA b1 :
    Let([i \in 1..Len(b1) |-> update_position_verlet(b1[i])], LAMBDA b2 :
    Let(ForcePassFrom(b2, 1), LAMBDA b3 :
        [i \in 1..Len(b3) |-> update_velocity_verlet(b3[i])]))))

Events == HandleEvents(MaxFrames)

ForcePassFirst == \E i \in Idx : InOrder(i) /\ CalculateForceFirst(i)

PositionPass == \E i \in Idx : InOrder(i) /\ UpdatePosition(i)

ForcePassSecond == \E i \in Idx : InOrder(i) /\ CalculateForceSecond(i)

VelocityPass == \E i \in Idx : InOrder(i) /\ UpdateVelocity(i)

PredictionPass == \E i \in Idx : InOrder(i) /\ Predict(i)

Next ==
    \/ Events
    \/ ForcePassFirst
    \/ PositionPass
    \/ ForcePassSecond
    \/ VelocityPass
    \/ PredictionPass
    \/ EndFrame

Spec == Init /\ [][Next]_vars

(***************************************************************************)
(* The same program with the bodies of each of the four integration passes *)
(* visited in any order (the prediction pass keeps the order of the list). *)
(***************************************************************************)
EventsAnyOrder == HandleEvents(MaxFramesAnyOrder)

ForcePassFirstAnyOrder == \E i \in Idx : CalculateForceFirst(i)

PositionPassAnyOrder == \E i \in Idx : UpdatePosition(i)

ForcePassSecondAnyOrder == \E i \in Idx : CalculateForceSecond(i)

VelocityPassAnyOrder == \E i \in Idx : UpdateVelocity(i)

NextAnyOrder ==
    \/ EventsAnyOrder
    \/ ForcePassFirstAnyOrder
    \/ PositionPassAnyOrder
    \/ ForcePassSecondAnyOrder
    \/ VelocityPassAnyOrder
    \/ PredictionPass
    \/ EndFrame

SpecAnyOrder == Init /\ [][NextAnyOrder]_vars

(***************************************************************************)
(* The live integrator applied to one body alone: body i is taken through  *)
(* the four calls a tick makes on it (lines 335, 337, 339, 341) while the  *)
(* other bodies stay where they are.                                       *)
(***************************************************************************)
LiveTick(bs, i) ==
    Let(calculate_force(bs, i, AllOf(bs)).body, LAMBDA b1 :
    Let(update_position_verlet(b1), LAMBDA b2 :
    Let(calculate_force([bs EXCEPT ![i] = b2], i, AllOf(bs)).body, LAMBDA b3 :
        [bs EXCEPT ![i] = update_velocity_verlet(b3)])))

\* n such ticks from st = [bodies, path], the position reached by each appended
\* to path (the ticks are taken in two halves to keep the evaluation shallow)
RECURSIVE LiveLoop(_, _, _)
LiveLoop(st, i, n) ==
    IF n = 0 THEN st
    ELSE IF n = 1
    THEN Let(LiveTick(st.bodies, i), LAMBDA nbs :
             [ bodies |-> nbs, path |-> Append(st.path, nbs[i].position) ])
    ELSE Let(LiveLoop(st, i, n \div 2), LAMBDA half :
             LiveLoop(half, i, n - n \div 2))

LivePath(bs, i, n) == LiveLoop([ bodies |-> bs, path |-> << >> ], i, n).path

\* the fields of a body that a tick computes (predicted_trajectory is display data)
Physics(b) == [ mass |-> b.mass, position |-> b.position, velocity |-> b.velocity,
                force |-> b.force, force_prev |-> b.force_prev, trail |-> b.trail ]

\* the bodies of other_bodies that are not at the position of body i
Apart(bs, i) ==
    SelectSeq(AllOf(bs), LAMBDA j : j = i \/ bs[j].position # bs[i].position)

(***************************************************************************)
(* Properties.                                                             *)
(***************************************************************************)

\* C1: from the two fresh bodies (mass 1e6 at (0,0), mass 1 at (100,0), both
\* at rest), once the four passes of the first tick are done the light body's
\* position.x is strictly less than 100 and its velocity.x is strictly
\* negative.  FAILS: the first position update adds 0.5 * force_prev / mass *
\* DT^2 with force_prev still the zero vector of the constructor, so
\* position.x is exactly 100 after one tick; only the velocity has changed.
C1_LightBodyMovesInFirstTick ==
    (Scenarios[scenario] = HeavyAndLight /\ frame_count = 0 /\ pc \in {"predict", "frame_end"})
        => /\ Less(bodies[2].position.x, Dec(100, 0))
           /\ Less(bodies[2].velocity.x, Zero)

\* C2: predict_trajectory(bodies, steps), called on any body of the list with
\* steps = 0, 1, 2 or PREDICTION_STEPS at any point where the main loop calls
\* it, leaves every body of the list (position, velocity, force, force_prev,
\* trail and all other fields) exactly as it was; this includes the calls
\* that raise.
C2_PredictLeavesBodiesUnchanged ==
    pc = "predict"
        => \A i \in Idx : \A steps \in {0, 1, 2, PREDICTION_STEPS} :
               predict_trajectory(bodies, i, steps).bodies = bodies

\* a prediction pass has run: a body carries a full path that leads away from
\* its position, and the bodies are as the four passes left them
C2_Witness ==
    /\ pc = "frame_end"
    /\ draw_predictions
    /\ [i \in Idx |-> Physics(bodies[i])] = [i \in Idx |-> Physics(Tick(tick_start)[i])]
    /\ \E i \in Idx :
           /\ Len(bodies[i].predicted_trajectory) = PREDICTION_STEPS
           /\ bodies[i].predicted_trajectory[PREDICTION_STEPS] # bodies[i].position

\* C3: a body whose mass is 0 has, in every reachable state, the position and
\* the velocity it was constructed with.
C3_ZeroMassBodyNeverMoves ==
    \A i \in Idx :
        IsZero(bodies[i].mass)
            => /\ bodies[i].position = InitialBodies(scenario)[i].position
               /\ bodies[i].velocity = InitialBodies(scenario)[i].velocity

\* several ticks are done, a zero-mass body with a velocity of its own is in
\* the list, and another body has moved
C3_Witness ==
    /\ frame_count >= 3
    /\ \E i \in Idx :
           /\ IsZero(bodies[i].mass)
           /\ bodies[i].velocity # Vector2(Zero, Zero)
    /\ \E j \in Idx : bodies[j].position # InitialBodies(scenario)[j].position

\* C4: in every reachable state every body's trail holds at most TRAIL_LENGTH
\* positions.
C4_TrailIsBounded ==
    \A i \in Idx : Len(bodies[i].trail) <= TRAIL_LENGTH

\* more ticks than TRAIL_LENGTH are done and a trail is full: entries have
\* been evicted
C4_Witness ==
    /\ frame_count > TRAIL_LENGTH
    /\ \E i \in Idx : Len(bodies[i].trail) = TRAIL_LENGTH

\* C5 as stated: between ticks, after k > TRAIL_LENGTH ticks, the oldest trail
\* entry of a body of nonzero mass is its position at the end of tick
\* k - TRAIL_LENGTH.  FAILS: see C5_OldestTrailEntry.
C5_OldestTrailEntry_AsStated ==
    (pc = "events" /\ frame_count > TRAIL_LENGTH)
        => \A i \in Idx :
               ~IsZero(bodies[i].mass)
                   => bodies[i].trail[1] = pos_hist[frame_count - TRAIL_LENGTH][i]

\* C5: between ticks, after k > TRAIL_LENGTH ticks, the oldest trail entry of
\* a body of nonzero mass is its position at the end of tick
\* k - TRAIL_LENGTH + 1, that is TRAIL_LENGTH - 1 ticks ago: the trail holds
\* the positions at the end of the last TRAIL_LENGTH ticks, the newest being
\* the current position.
C5_OldestTrailEntry ==
    (pc = "events" /\ frame_count > TRAIL_LENGTH)
        => \A i \in Idx :
               ~IsZero(bodies[i].mass)
                   => /\ Len(bodies[i].trail) = TRAIL_LENGTH
                      /\ bodies[i].trail[1] = pos_hist[frame_count - TRAIL_LENGTH + 1][i]
                      /\ bodies[i].trail[TRAIL_LENGTH] = bodies[i].position

\* more ticks than TRAIL_LENGTH are done and a body of nonzero mass has been
\* moving, so that the positions of successive ticks differ
C5_Witness ==
    /\ pc = "events"
    /\ frame_count > TRAIL_LENGTH
    /\ \E i \in Idx :
           /\ ~IsZero(bodies[i].mass)
           /\ pos_hist[frame_count - TRAIL_LENGTH][i]
                  # pos_hist[frame_count - TRAIL_LENGTH + 1][i]

\* C6: for a body of mass 0, predict_trajectory(bodies, PREDICTION_STEPS)
\* returns without raising, and returns an empty path or one whose every
\* entry is the body's position; no frame ends in ZeroDivisionError.
\* FAILS: the loop divides temp_force_prev by self.mass without a test.
C6_ZeroMassPredictionDoesNotFault ==
    /\ fault # "ZeroDivisionError"
    /\ pc = "predict"
           => \A i \in Idx :
                  IsZero(bodies[i].mass)
                      => \E r \in { predict_trajectory(bodies, i, PREDICTION_STEPS) } :
                             /\ r.fault = "none"
                             /\ \A n \in 1..Len(r.predicted) :
                                    r.predicted[n] = bodies[i].position

\* C7: where a force pass is about to visit the bodies, calculate_force on a
\* body that shares its position with another returns without raising, and
\* leaves the force it leaves when the bodies at its position are not in
\* other_bodies; no frame ends in ValueError.  FAILS: dist_sq is never 0
\* (SOFTENING is added), and normalize() raises on the zero-length r_vec.
C7_CoincidentPairContributesNothing ==
    /\ fault # "ValueError"
    /\ pc \in {"force1", "force2"}
           => \A i \in Idx :
                  \E r \in { calculate_force(bodies, i, AllOf(bodies)) } :
                      /\ r.fault = "none"
                      /\ r.body = calculate_force(bodies, i, Apart(bodies, i)).body

\* C8: in every tick but the first, as the velocity pass begins, every
\* body's force_prev is the force the body had at the end of the tick before.
C8_ForcePrevIsForceOfLastTick ==
    (pc = "velocity" /\ visited = {} /\ frame_count >= 1)
        => \A i \in Idx : bodies[i].force_prev = force_end[i]

\* a velocity pass of a later tick begins with a body whose force has changed
\* since the last tick
C8_Witness ==
    /\ pc = "velocity"
    /\ visited = {}
    /\ frame_count >= 2
    /\ \E i \in Idx :
           /\ bodies[i].force_prev # Vector2(Zero, Zero)
           /\ bodies[i].force # bodies[i].force_prev

\* C9: whatever order the bodies were visited in by each of the four passes,
\* once the velocity pass is done every body has the mass, position,
\* velocity, force, force_prev and trail that the tick in list order gives it.
C9_TickIsIndependentOfOrder ==
    pc \in {"predict", "frame_end"}
        => \E ref \in { Tick(tick_start) } :
               \A i \in Idx : Physics(bodies[i]) = Physics(ref[i])

\* a tick other than the first is done in which a pass left the order of the
\* list, and in which bodies moved
C9_Witness ==
    /\ pc = "frame_end"
    /\ out_of_order
    /\ frame_count >= 1
    /\ Len(bodies) >= 3
    /\ \A i \in Idx : bodies[i].position # tick_start[i].position

\* C10: after a prediction pass that follows a completed tick, entry n of the
\* predicted trajectory of a body of nonzero mass is the position the body
\* holds after n live ticks of its own with the other bodies kept in place.
\* FAILS: the loop of predict_trajectory computes the force once per step and
\* shifts temp_force_prev after the position update, so its position update
\* uses a force one step older than the one the main loop uses.
C10_PredictionFollowsLiveIntegrator ==
    (pc = "frame_end" /\ draw_predictions)
        => \A i \in Idx :
               ~IsZero(bodies[i].mass)
                   => bodies[i].predicted_trajectory
                          = LivePath(bodies, i, PREDICTION_STEPS)

=============================================================================
